---- MODULE Spec2Model ----
(***************************************************************************)
(* Model of DeepMoon's coordinate transforms (deepmoon/coord/              *)
(* transformation.py) and of the MoonCrater dataset adapter                *)
(* (deepmoon/learning/moondata.py).                                        *)
(*                                                                         *)
(* Numbers are exact rationals <<n, d>> in lowest terms with d > 0; the    *)
(* pair <<0, 0>> stands for the non-finite outcome of a division by zero   *)
(* (inf/NaN, or ZeroDivisionError under numba's python error model).       *)
(* Floating-point rounding is not modelled: every statement below is about *)
(* the value the formulas denote in exact arithmetic.                      *)
(***************************************************************************)
EXTENDS Integers, Sequences, FiniteSets, TLC

VARIABLES
    \* ---- coord2pix / pix2coord -------------------------------------
    cx, cy,          \* arguments cx, cy (integers)
    coord_lim,       \* <<x_min, x_max, y_min, y_max>>
    imgdim,          \* <<width, height>>
    origin,          \* origin argument of the last coord2pix call
    pix,             \* result <<x, y>> of the last coord2pix call, or NoVal
    prevOrigin,      \* origin argument of the coord2pix call before that
    prevPix,         \* its result
    coordOrigin,     \* origin argument of the last pix2coord call
    coord,           \* result <<cx, cy>> of pix2coord applied to pix
    \* ---- km2pix ----------------------------------------------------
    kmArgs,          \* <<imgheight, latextent, dc, a>> of the last call
    kmVal,           \* its result (coefficient of 1/pi)
    kmPrevArgs,      \* arguments of the call before that
    kmPrevVal,       \* its result
    \* ---- MoonCrater ------------------------------------------------
    manifest,        \* data_rec.json: whether it is a file, and its record names
    images,          \* stems s for which root/s.png is a file
    masks,           \* stems s for which root/mask/s.png is a file
    transform,       \* the transform passed to the constructor ("none" or "T")
    pc,              \* "new", "constructed" or "raised"
    error,           \* exception raised by the constructor or the last call
    examined,        \* number of manifest records the constructor looked at
    files,           \* self.files
    lenResult,       \* result of the last __len__ call, or -1
    getIndex,        \* index argument of the last __getitem__ call
    getResult        \* result of the last __getitem__ call

coordVars == <<cx, cy, coord_lim, imgdim, origin, pix, prevOrigin, prevPix,
               coordOrigin, coord>>
kmVars    == <<kmArgs, kmVal, kmPrevArgs, kmPrevVal>>
dataVars  == <<manifest, images, masks, transform, pc, error, examined,
               files, lenResult, getIndex, getResult>>
vars      == <<coordVars, kmVars, dataVars>>

----------------------------------------------------------------------------
(* Bounds of the model *)
MaxCoord == 1      \* cx, cy and the coordinate limits range over
                   \* -MaxCoord..MaxCoord

NoVal == <<>>

----------------------------------------------------------------------------
(* Exact rational arithmetic *)
Abs(n) == IF n < 0 THEN -n ELSE n

RECURSIVE GCD(_, _)
GCD(m, n) == IF n = 0 THEN m ELSE GCD(n, m % n)

NonFinite == <<0, 0>>
IsFinite(q) == q[2] # 0

Norm(n, d) ==
    IF d = 0 THEN NonFinite
    ELSE LET g == GCD(Abs(n), Abs(d))
             s == IF d < 0 THEN -1 ELSE 1
         IN  <<s * (n \div g), s * (d \div g)>>

R(n) == <<n, 1>>
RAdd(p, q) == IF IsFinite(p) /\ IsFinite(q)
              THEN Norm(p[1] * q[2] + q[1] * p[2], p[2] * q[2]) ELSE NonFinite
RSub(p, q) == IF IsFinite(p) /\ IsFinite(q)
              THEN Norm(p[1] * q[2] - q[1] * p[2], p[2] * q[2]) ELSE NonFinite
RMul(p, q) == IF IsFinite(p) /\ IsFinite(q)
              THEN Norm(p[1] * q[1], p[2] * q[2]) ELSE NonFinite
RDiv(p, q) == IF IsFinite(p) /\ IsFinite(q)
              THEN Norm(p[1] * q[2], p[2] * q[1]) ELSE NonFinite
RLess(p, q) == p[1] * q[2] < q[1] * p[2]
RLeq(p, q) == p[1] * q[2] <= q[1] * p[2]

----------------------------------------------------------------------------
(* transformation.py *)

\* The values an origin argument may take: the two documented ones and an
\* unrecognised one.
Origins == {"upper", "lower", "center"}

coord2pix_mut_clamp(pcx, pcy, lim, dim, o) ==
    LET clamp(q, hi) == IF ~IsFinite(q) THEN q
                        ELSE IF RLess(q, R(0)) THEN R(0)
                        ELSE IF RLess(hi, q) THEN hi ELSE q
        x == RDiv(RMul(dim[1], RSub(pcx, lim[1])), RSub(lim[2], lim[1]))
        y == IF o = "lower"
             THEN RDiv(RMul(dim[2], RSub(pcy, lim[3])), RSub(lim[4], lim[3]))
             ELSE RDiv(RMul(dim[2], RSub(lim[4], pcy)), RSub(lim[4], lim[3]))
    IN  <<clamp(x, dim[1]), clamp(y, dim[2])>>

coord2pix_mut_swap(pcx, pcy, lim, dim, o) ==
    LET x == RDiv(RMul(dim[1], RSub(pcx, lim[1])), RSub(lim[2], lim[1]))
        y == IF o = "upper"
             THEN RDiv(RMul(dim[2], RSub(pcy, lim[3])), RSub(lim[4], lim[3]))
             ELSE RDiv(RMul(dim[2], RSub(lim[4], pcy)), RSub(lim[4], lim[3]))
    IN  <<x, y>>

coord2pix_mut_strict(pcx, pcy, lim, dim, o) ==
    LET x == RDiv(RMul(dim[1], RSub(pcx, lim[1])), RSub(lim[2], lim[1]))
        y == IF o = "lower"
             THEN RDiv(RMul(dim[2], RSub(pcy, lim[3])), RSub(lim[4], lim[3]))
             ELSE IF o = "upper"
             THEN RDiv(RMul(dim[2], RSub(lim[4], pcy)), RSub(lim[4], lim[3]))
             ELSE NonFinite
    IN  <<x, y>>

coord2pix_mut_ymin(pcx, pcy, lim, dim, o) ==
    LET x == RDiv(RMul(dim[1], RSub(pcx, lim[1])), RSub(lim[2], lim[1]))
        y == IF o = "lower"
             THEN RDiv(RMul(dim[2], RSub(pcy, lim[3])), RSub(lim[4], lim[3]))
             ELSE RDiv(RMul(dim[2], RSub(lim[4], pcy)), RSub(lim[4], lim[1]))
    IN  <<x, y>>

\* coord2pix(cx, cy, coord_lim, imgdim, origin); all arguments rationals
coord2pix(pcx, pcy, lim, dim, o) ==
    LET x == RDiv(RMul(dim[1], RSub(pcx, lim[1])), RSub(lim[2], lim[1]))
        y == IF o = "lower"
             THEN RDiv(RMul(dim[2], RSub(pcy, lim[3])), RSub(lim[4], lim[3]))
             ELSE RDiv(RMul(dim[2], RSub(lim[4], pcy)), RSub(lim[4], lim[3]))
    IN  <<x, y>>

pix2coord_mut_noflip(x, y, lim, dim, o) ==
    LET rcx == RAdd(RMul(RDiv(x, dim[1]), RSub(lim[2], lim[1])), lim[1])
        rcy == RAdd(RMul(RDiv(y, dim[2]), RSub(lim[4], lim[3])), lim[3])
    IN  <<rcx, rcy>>

\* pix2coord(x, y, coord_lim, imgdim, origin)
pix2coord(x, y, lim, dim, o) ==
    LET rcx == RAdd(RMul(RDiv(x, dim[1]), RSub(lim[2], lim[1])), lim[1])
        rcy == IF o = "lower"
               THEN RAdd(RMul(RDiv(y, dim[2]), RSub(lim[4], lim[3])), lim[3])
               ELSE RSub(lim[4], RMul(RDiv(y, dim[2]), RSub(lim[4], lim[3])))
    IN  <<rcx, rcy>>

RLim == <<R(coord_lim[1]), R(coord_lim[2]), R(coord_lim[3]), R(coord_lim[4])>>
RDim == <<R(imgdim[1]), R(imgdim[2])>>

\* The coordinate limits a caller may pass: the ranges with x_min < x_max
\* and y_min < y_max, two degenerate ones (a zero-width x range, a zero-width
\* y range), and the whole-globe limits of the docstrings' Plate Carree
\* convention.
LimRange == {r \in (-MaxCoord..MaxCoord) \X (-MaxCoord..MaxCoord) : r[1] < r[2]}
Limits == {<<rx[1], rx[2], ry[1], ry[2]>> : rx \in LimRange, ry \in LimRange}
             \cup {<<0, 0, 0, 1>>, <<0, 1, 0, 0>>}
ImageDims == {<<1, 1>>, <<1, 2>>, <<3, 2>>}
GlobeLim == <<-180, 180, -90, 90>>
GlobeDim == <<512, 256>>

InitCoordVars ==
    /\ cx \in -MaxCoord..MaxCoord
    /\ cy \in -MaxCoord..MaxCoord
    /\ \/ coord_lim \in Limits /\ imgdim \in ImageDims
       \/ coord_lim = GlobeLim /\ imgdim = GlobeDim
    /\ origin = "upper"
    /\ pix = NoVal
    /\ prevOrigin = "upper"
    /\ prevPix = NoVal
    /\ coordOrigin = "upper"
    /\ coord = NoVal

IdleCoordVars ==
    /\ cx = 0 /\ cy = 0 /\ coord_lim = GlobeLim /\ imgdim = GlobeDim
    /\ origin = "upper" /\ pix = NoVal /\ prevOrigin = "upper"
    /\ prevPix = NoVal /\ coordOrigin = "upper" /\ coord = NoVal

\* A call coord2pix(cx, cy, coord_lim, imgdim, o).
CallCoord2pix ==
    \E o \in Origins :
        /\ origin' = o
        /\ pix' = coord2pix(R(cx), R(cy), RLim, RDim, o)
        /\ prevOrigin' = origin
        /\ prevPix' = pix
        /\ coord' = NoVal
        /\ coordOrigin' = "upper"
        /\ UNCHANGED <<cx, cy, coord_lim, imgdim>>

\* A call pix2coord(x, y, coord_lim, imgdim, o) on the pixel position the
\* last coord2pix call returned.
CallPix2coord ==
    \E o \in Origins :
        /\ pix # NoVal
        /\ coordOrigin' = o
        /\ coord' = pix2coord(pix[1], pix[2], RLim, RDim, o)
        /\ UNCHANGED <<cx, cy, coord_lim, imgdim, origin, pix, prevOrigin, prevPix>>


----------------------------------------------------------------------------
(* km2pix *)

MaxHeight == 4     \* imgheight ranges over 1..MaxHeight
MaxExtent == 1     \* latextent ranges over -MaxExtent..MaxExtent

\* 180. / np.pi, in units of 1/pi: km2pix values are kept as the rational
\* coefficient c of the real number c/pi.  pi is transcendental, so two such
\* reals are equal exactly when their coefficients are.
DegPerRad == R(180)

\* The default of parameter a, 1737.4
MoonRadius == <<8687, 5>>

km2pix_mut_offset(imgheight, latextent, dc, a) ==
    RDiv(RDiv(RMul(RAdd(RMul(DegPerRad, imgheight), R(1)), dc), latextent), a)

\* km2pix(imgheight, latextent, dc, a), evaluated left to right as Python does
km2pix(imgheight, latextent, dc, a) ==
    RDiv(RDiv(RMul(RMul(DegPerRad, imgheight), dc), latextent), a)

KmArgs == {<<R(h), R(e), d, r>> : h \in 1..MaxHeight,
                                  e \in -MaxExtent..MaxExtent,
                                  d \in {R(0), <<1, 2>>, R(1)},
                                  r \in {R(1), MoonRadius}}

InitKmVars ==
    /\ kmArgs = NoVal /\ kmVal = NoVal
    /\ kmPrevArgs = NoVal /\ kmPrevVal = NoVal

\* A call km2pix(imgheight, latextent, dc, a)
CallKm2pix ==
    \E args \in KmArgs :
        /\ kmArgs' = args
        /\ kmVal' = km2pix(args[1], args[2], args[3], args[4])
        /\ kmPrevArgs' = kmArgs
        /\ kmPrevVal' = kmVal

----------------------------------------------------------------------------
(* moondata.py *)

MaxRecords == 2    \* the manifest lists at most MaxRecords records
MaxIndex == 2      \* __getitem__ is called with indices -MaxIndex..MaxIndex

Digits == <<"0", "1", "2", "3", "4", "5", "6", "7", "8", "9">>
IsDigit(c) == \E k \in 1..10 : Digits[k] = c
DigitVal(c) == (CHOOSE k \in 1..10 : Digits[k] = c) - 1

\* int(s) for a string s: defined when s is a non-empty digit string
IntDefined(s) == s # <<>> /\ \A k \in 1..Len(s) : IsDigit(s[k])

RECURSIVE int(_)
int(s) == IF s = <<>> THEN 0
          ELSE 10 * int(SubSeq(s, 1, Len(s) - 1)) + DigitVal(s[Len(s)])

\* f"{index}" for an integer index >= 0
RECURSIVE format(_)
format(n) == IF n < 10 THEN <<Digits[n + 1]>>
             ELSE format(n \div 10) \o <<Digits[(n % 10) + 1]>>

\* root / f"{index}.png" and root / "mask" / f"{index}.png"
ImagePath(stem) == <<"root", stem>>
MaskPath(stem) == <<"root/mask", stem>>

\* Path.is_file()
is_file(path, imgs, msks) ==
    IF path[1] = "root" THEN path[2] \in imgs ELSE path[2] \in msks

\* The record names a manifest may hold: the digit strings "1" and "10", a
\* digit string with a leading zero, and one name that is not a number.
Names == {<<"1">>, <<"1", "0">>, <<"0", "1">>, <<"x">>}
NoManifest == [is_file |-> FALSE, info |-> <<>>]
Manifests == {[is_file |-> TRUE, info |-> i] :
                 i \in UNION {[1..n -> Names] : n \in 0..MaxRecords}}
FileStems == {<<"1">>, <<"1", "0">>, <<"0", "1">>}

\* The loop over info (lines 30-37): the records from position k on, files
\* collected so far in acc.
RECURSIVE ScanMutOr(_, _, _, _, _)
ScanMutOr(info, k, acc, imgs, msks) ==
    IF k > Len(info)
    THEN [raised |-> FALSE, examined |-> Len(info), files |-> acc]
    ELSE IF ~IntDefined(info[k])
    THEN [raised |-> TRUE, examined |-> k, files |-> acc]
    ELSE LET index == int(info[k])
             image == ImagePath(format(index))
             mask  == MaskPath(format(index))
         IN  ScanMutOr(info, k + 1,
                  IF is_file(image, imgs, msks) \/ is_file(mask, imgs, msks)
                  THEN acc \cup {<<image, mask>>} ELSE acc,
                  imgs, msks)

RECURSIVE Scan(_, _, _, _, _)
Scan(info, k, acc, imgs, msks) ==
    IF k > Len(info)
    THEN [raised |-> FALSE, examined |-> Len(info), files |-> acc]
    ELSE IF ~IntDefined(info[k])
    THEN [raised |-> TRUE, examined |-> k, files |-> acc]
    ELSE LET index == int(info[k])
             image == ImagePath(format(index))
             mask  == MaskPath(format(index))
         IN  Scan(info, k + 1,
                  IF is_file(image, imgs, msks) /\ is_file(mask, imgs, msks)
                  THEN acc \cup {<<image, mask>>} ELSE acc,
                  imgs, msks)

\* tuple(files): the elements of a set in some order
Orderings(S) ==
    {f \in [1..Cardinality(S) -> S] : \A i, j \in 1..Cardinality(S) :
                                          f[i] = f[j] => i = j}

MoonCrater_init_mut_partial(mf, imgs, msks) ==
    IF ~mf.is_file
    THEN [pc |-> "constructed", errors |-> {"none"}, examined |-> 0,
          files |-> {}]
    ELSE LET r == Scan(mf.info, 1, {}, imgs, msks)
         IN  IF r.raised
             THEN [pc |-> "raised", errors |-> {"ValueError"},
                   examined |-> r.examined, files |-> {}]
             ELSE [pc |-> "constructed", errors |-> {"none"},
                   examined |-> r.examined, files |-> r.files]

\* MoonCrater.__init__: the outcome of constructing on a root with manifest
\* mf, images imgs and masks msks.  errors holds the exceptions the call may
\* end with: without the manifest the assert fails, or, when asserts are
\* compiled out (python -O), open() does.
MoonCrater_init(mf, imgs, msks) ==
    IF ~mf.is_file
    THEN [pc |-> "raised", errors |-> {"AssertionError", "FileNotFoundError"},
          examined |-> 0, files |-> {}]
    ELSE LET r == Scan(mf.info, 1, {}, imgs, msks)
         IN  IF r.raised
             THEN [pc |-> "raised", errors |-> {"ValueError"},
                   examined |-> r.examined, files |-> {}]
             ELSE [pc |-> "constructed", errors |-> {"none"},
                   examined |-> r.examined, files |-> r.files]

\* MoonCrater.__len__
MoonCrater_len(fs) == Len(fs)

\* Image.open(path)
ImageOpen(path) == [path |-> path, transformed |-> 0]

\* self.transform(image), for the transform "T"
ApplyTransform(img) == [img EXCEPT !.transformed = @ + 1]

\* index.tolist() when index is a tensor: the index is <<kind, value>>
IndexValue(index) == index[2]

MoonCrater_getitem_mut_pop(fs, tr, index) ==
    LET i == IndexValue(index)
        n == Len(fs)
    IN  IF i >= n \/ i < -n
        THEN [error |-> "IndexError", result |-> NoVal, files |-> fs]
        ELSE LET data == fs[IF i >= 0 THEN i + 1 ELSE n + i + 1]
                 image == ImageOpen(data[1])
                 mask == ImageOpen(data[2])
             IN  [error |-> "none",
                  result |-> IF tr # "none"
                             THEN <<ApplyTransform(image), ApplyTransform(mask)>>
                             ELSE <<image, mask>>,
                  files |-> SubSeq(fs, 2, n) \o <<fs[1]>>]

MoonCrater_getitem_mut_once(fs, tr, index) ==
    LET i == IndexValue(index)
        n == Len(fs)
    IN  IF i >= n \/ i < -n
        THEN [error |-> "IndexError", result |-> NoVal, files |-> fs]
        ELSE LET data == fs[IF i >= 0 THEN i + 1 ELSE n + i + 1]
                 image == ImageOpen(data[1])
                 mask == ImageOpen(data[2])
             IN  [error |-> "none",
                  result |-> IF tr # "none"
                             THEN <<ApplyTransform(image), mask>>
                             ELSE <<image, mask>>,
                  files |-> fs]

\* MoonCrater.__getitem__: the exception or result of the call, and
\* self.files after it
MoonCrater_getitem(fs, tr, index) ==
    LET i == IndexValue(index)
        n == Len(fs)
    IN  IF i >= n \/ i < -n
        THEN [error |-> "IndexError", result |-> NoVal, files |-> fs]
        ELSE LET data == fs[IF i >= 0 THEN i + 1 ELSE n + i + 1]
                 image == ImageOpen(data[1])
                 mask == ImageOpen(data[2])
             IN  [error |-> "none",
                  result |-> IF tr # "none"
                             THEN <<ApplyTransform(image), ApplyTransform(mask)>>
                             ELSE <<image, mask>>,
                  files |-> fs]

Indices == {"int", "tensor"} \X (-MaxIndex..MaxIndex)

InitDataVars ==
    /\ manifest \in Manifests \cup {NoManifest}
    /\ images \in SUBSET FileStems
    /\ masks \in SUBSET FileStems
    /\ transform \in {"none", "T"}
    /\ pc = "new"
    /\ error = "none"
    /\ examined = 0
    /\ files = NoVal
    /\ lenResult = -1
    /\ getIndex = NoVal
    /\ getResult = NoVal

\* MoonCrater(root, transform)
Construct ==
    /\ pc = "new"
    /\ LET r == MoonCrater_init(manifest, images, masks)
       IN  /\ pc' = r.pc
           /\ error' \in r.errors
           /\ examined' = r.examined
           /\ IF r.pc = "constructed"
              THEN files' \in Orderings(r.files)
              ELSE files' = NoVal
    /\ UNCHANGED <<manifest, images, masks, transform, lenResult, getIndex,
                   getResult>>

\* len(dataset)
CallLen ==
    /\ pc = "constructed"
    /\ lenResult' = MoonCrater_len(files)
    /\ error' = "none"
    /\ UNCHANGED <<manifest, images, masks, transform, pc, examined, files,
                   getIndex, getResult>>

\* dataset[index]
CallGetitem ==
    /\ pc = "constructed"
    /\ \E index \in Indices :
          LET r == MoonCrater_getitem(files, transform, index)
          IN  /\ getIndex' = index
              /\ getResult' = r.result
              /\ error' = r.error
              /\ files' = r.files
    /\ UNCHANGED <<manifest, images, masks, transform, pc, examined,
                   lenResult>>

----------------------------------------------------------------------------
(* Specifications: one per component; the variables of the other components
   stay at rest. *)

IdleKmVars == InitKmVars

IdleDataVars ==
    /\ manifest = NoManifest /\ images = {} /\ masks = {} /\ transform = "none"
    /\ pc = "new" /\ error = "none" /\ examined = 0 /\ files = NoVal
    /\ lenResult = -1 /\ getIndex = NoVal /\ getResult = NoVal

InitCoord == InitCoordVars /\ IdleKmVars /\ IdleDataVars
NextCoord == (CallCoord2pix \/ CallPix2coord) /\ UNCHANGED <<kmVars, dataVars>>
SpecCoord == InitCoord /\ [][NextCoord]_vars

InitKm == IdleCoordVars /\ InitKmVars /\ IdleDataVars
NextKm == CallKm2pix /\ UNCHANGED <<coordVars, dataVars>>
SpecKm == InitKm /\ [][NextKm]_vars

InitData == IdleCoordVars /\ IdleKmVars /\ InitDataVars
NextData == (Construct \/ CallLen \/ CallGetitem) /\ UNCHANGED <<coordVars, kmVars>>
SpecData == InitData /\ [][NextData]_vars


----------------------------------------------------------------------------
(* Properties of coord2pix and pix2coord, checked under SpecCoord *)

x_min == coord_lim[1]
x_max == coord_lim[2]
y_min == coord_lim[3]
y_max == coord_lim[4]
width == imgdim[1]
height == imgdim[2]

NonDegenerate == x_min < x_max /\ y_min < y_max

\* C1: round trip.  For origin upper and for origin lower, non-degenerate
\* limits and any cx, cy, pix2coord applied to the result of coord2pix with
\* the same limits, dimensions and origin returns (cx, cy).
C1_RoundTrip ==
    (/\ coord # NoVal
     /\ NonDegenerate
     /\ origin \in {"upper", "lower"}
     /\ coordOrigin = origin)
    => coord = <<R(cx), R(cy)>>

C1_Witness ==
    /\ coord # NoVal /\ NonDegenerate
    /\ origin = "upper" /\ coordOrigin = "upper"
    /\ cx > x_max /\ cy < y_min /\ height # width
    /\ coord = <<R(cx), R(cy)>>

\* C2: boundary.  With origin upper and non-degenerate limits, coord2pix maps
\* (x_min, y_max) to (0, 0) and (x_max, y_min) to (width, height).
C2_Boundary ==
    (pix # NoVal /\ NonDegenerate /\ origin = "upper")
    => /\ (cx = x_min /\ cy = y_max) => pix = <<R(0), R(0)>>
       /\ (cx = x_max /\ cy = y_min) => pix = <<R(width), R(height)>>

C2_Witness ==
    /\ pix # NoVal /\ NonDegenerate /\ origin = "upper"
    /\ cx = x_max /\ cy = y_min /\ width # height
    /\ pix = <<R(width), R(height)>>

\* C3: origin symmetry.  For the same cx, cy, limits and dimensions, the y
\* pixels coord2pix returns for origin upper and for origin lower add up to
\* the image height, and the x pixels are equal.
C3_OriginSymmetry ==
    (/\ pix # NoVal /\ prevPix # NoVal
     /\ NonDegenerate
     /\ {origin, prevOrigin} = {"upper", "lower"})
    => /\ RAdd(pix[2], prevPix[2]) = R(height)
       /\ pix[1] = prevPix[1]

C3_Witness ==
    /\ pix # NoVal /\ prevPix # NoVal /\ NonDegenerate
    /\ origin = "lower" /\ prevOrigin = "upper"
    /\ pix[2] # prevPix[2]
    /\ cy > y_max
    /\ RAdd(pix[2], prevPix[2]) = R(height)

\* C8: no clamping or rounding.  For non-degenerate limits the pixel position
\* is the affine image of the coordinate: it satisfies
\* x * (x_max - x_min) = width * (cx - x_min) (and the corresponding equation
\* for y under either origin), lies below 0 or beyond the image size when the
\* coordinate lies outside the limits and inside [0, size] when it lies
\* inside, and coord2pix(0, 0, (-180,180,-90,90), (512,256), upper) is
\* (256, 128).
C8_NoClamping ==
    (pix # NoVal /\ NonDegenerate)
    => /\ RMul(pix[1], R(x_max - x_min)) = R(width * (cx - x_min))
       /\ RMul(pix[2], R(y_max - y_min)) =
             IF origin = "lower" THEN R(height * (cy - y_min))
                                 ELSE R(height * (y_max - cy))
       /\ cx < x_min => RLess(pix[1], R(0))
       /\ cx > x_max => RLess(R(width), pix[1])
       /\ (x_min <= cx /\ cx <= x_max)
             => RLeq(R(0), pix[1]) /\ RLeq(pix[1], R(width))
       /\ (cy < y_min \/ cy > y_max)
             => RLess(pix[2], R(0)) \/ RLess(R(height), pix[2])
       /\ cy < y_min
             => IF origin = "lower" THEN RLess(pix[2], R(0))
                                    ELSE RLess(R(height), pix[2])
       /\ cy > y_max
             => IF origin = "lower" THEN RLess(R(height), pix[2])
                                    ELSE RLess(pix[2], R(0))
       /\ (y_min <= cy /\ cy <= y_max)
             => RLeq(R(0), pix[2]) /\ RLeq(pix[2], R(height))
       /\ (cx = 0 /\ cy = 0 /\ coord_lim = GlobeLim /\ imgdim = GlobeDim
           /\ origin = "upper")
             => pix = <<R(256), R(128)>>

C8_Witness ==
    /\ pix # NoVal /\ NonDegenerate
    /\ cx > x_max /\ RLess(R(width), pix[1])
    /\ y_min < cy /\ cy < y_max /\ origin = "upper"
    /\ pix[2][2] # 1

\* C10: origin selection is total.  Every origin value other than "lower"
\* gives coord2pix the result of origin upper, without an error; "lower"
\* gives the bottom-left convention; and pix2coord called with the origin
\* value coord2pix was called with (or with any value on the same side of
\* the comparison with "lower") returns the original coordinates.
C10_OriginTotal ==
    NonDegenerate =>
       /\ pix # NoVal
             => /\ IsFinite(pix[1]) /\ IsFinite(pix[2])
                /\ RMul(pix[2], R(y_max - y_min)) =
                      IF origin = "lower" THEN R(height * (cy - y_min))
                                          ELSE R(height * (y_max - cy))
       /\ (pix # NoVal /\ prevPix # NoVal
           /\ origin # "lower" /\ prevOrigin # "lower")
             => pix = prevPix
       /\ (pix # NoVal /\ prevPix # NoVal /\ 2 * cy # y_min + y_max
           /\ origin # "lower" /\ prevOrigin = "lower")
             => pix[2] # prevPix[2]
       /\ (coord # NoVal /\ (coordOrigin = "lower") = (origin = "lower"))
             => coord = <<R(cx), R(cy)>>
       /\ (coord # NoVal /\ (coordOrigin = "lower") # (origin = "lower")
           /\ 2 * cy # y_min + y_max)
             => coord[2] # R(cy)

C10_Witness ==
    /\ NonDegenerate
    /\ origin = "center" /\ prevOrigin = "upper"
    /\ pix # NoVal /\ pix = prevPix
    /\ coordOrigin = "center" /\ coord = <<R(cx), R(cy)>>
    /\ 2 * cy # y_min + y_max

----------------------------------------------------------------------------
(* Properties of km2pix, checked under SpecKm *)

\* C7: scale proportionality.  For positive height h, nonzero extent e and
\* radius a, km2pix(2h, e, 1, a) = 2 * km2pix(h, e, 1, a); and in general
\* km2pix(h, e, dc, a) * e * a = (180/pi) * h * dc.
C7_ScaleProportional ==
    /\ (kmArgs # NoVal /\ kmArgs[2] # R(0))
          => RMul(RMul(kmVal, kmArgs[2]), kmArgs[4])
                = RMul(R(180), RMul(kmArgs[1], kmArgs[3]))
    /\ (/\ kmArgs # NoVal /\ kmPrevArgs # NoVal
        /\ kmArgs[1] = RMul(R(2), kmPrevArgs[1])
        /\ kmArgs[2] = kmPrevArgs[2] /\ kmArgs[2] # R(0)
        /\ kmArgs[3] = R(1) /\ kmPrevArgs[3] = R(1)
        /\ kmArgs[4] = kmPrevArgs[4])
          => kmVal = RMul(R(2), kmPrevVal)

C7_Witness ==
    /\ kmArgs # NoVal /\ kmPrevArgs # NoVal
    /\ kmArgs[1] = RMul(R(2), kmPrevArgs[1])
    /\ kmArgs[2] = kmPrevArgs[2] /\ kmArgs[2] = R(-1)
    /\ kmArgs[3] = R(1) /\ kmPrevArgs[3] = R(1)
    /\ kmArgs[4] = MoonRadius /\ kmPrevArgs[4] = MoonRadius
    /\ kmVal = RMul(R(2), kmPrevVal)
    /\ kmVal # R(0)

----------------------------------------------------------------------------
(* Properties of MoonCrater, checked under SpecData *)

Records == {manifest.info[k] : k \in 1..Len(manifest.info)}
StoredPairs == {files[k] : k \in 1..Len(files)}

\* The pairs named by the record names as written in the manifest
NamePairs ==
    {<<ImagePath(n), MaskPath(n)>> : n \in {r \in Records : r \in images /\ r \in masks}}

\* The pairs named by the integer value of the record names
IntStems == {format(int(r)) : r \in {q \in Records : IntDefined(q)}}
IntPairs ==
    {<<ImagePath(s), MaskPath(s)>> : s \in {t \in IntStems : t \in images /\ t \in masks}}

\* C4 as stated: after construction the stored pairs are exactly the pairs
\* (root/{name}.png, root/mask/{name}.png) over the records for which both
\* files exist, and __len__ returns their number.
C4_AsStated ==
    pc = "constructed"
    => /\ StoredPairs = NamePairs
       /\ lenResult # -1 => lenResult = Cardinality(NamePairs)

\* C4, amended: with n = int(name), the constructor succeeds on an existing
\* manifest exactly when int(name) is defined for every record (otherwise it
\* raises ValueError); the stored pairs are then exactly the distinct pairs
\* (root/{n}.png, root/mask/{n}.png) over the records for which both of these
\* files exist, records with a missing image or mask are left out without an
\* error, and __len__ returns the number of distinct pairs.
C4_Enumeration ==
    /\ pc = "constructed"
          => /\ manifest.is_file
             /\ \A r \in Records : IntDefined(r)
             /\ StoredPairs = IntPairs
             /\ Len(files) = Cardinality(IntPairs)
             /\ lenResult # -1 => lenResult = Cardinality(IntPairs)
    /\ (manifest.is_file /\ pc # "new" /\ \A r \in Records : IntDefined(r))
          => pc = "constructed"
    /\ (manifest.is_file /\ pc # "new" /\ \E r \in Records : ~IntDefined(r))
          => pc = "raised" /\ error = "ValueError"

C4_Witness ==
    /\ pc = "constructed" /\ lenResult = 1
    /\ <<"0", "1">> \in Records /\ <<"1", "0">> \in Records
    /\ <<"0", "1">> \notin images
    /\ <<"1", "0">> \in images /\ <<"1", "0">> \notin masks
    /\ StoredPairs = {<<ImagePath(<<"1">>), MaskPath(<<"1">>)>>}

\* C5: missing manifest.  When data_rec.json is not a file the constructor
\* raises before it examines a record, and no dataset object exists: no pair
\* set is stored, whatever image and mask files the root holds.
C5_MissingManifest ==
    /\ (~manifest.is_file /\ pc # "new")
          => /\ pc = "raised"
             /\ error \in {"AssertionError", "FileNotFoundError"}
             /\ examined = 0
             /\ files = NoVal
             /\ lenResult = -1 /\ getResult = NoVal
    /\ pc = "constructed" => manifest.is_file

C5_Witness ==
    /\ ~manifest.is_file /\ pc = "raised" /\ files = NoVal
    /\ images \cap masks # {}

\* What __getitem__ is to return for a stored path
Loaded(path) ==
    [path |-> path, transformed |-> IF transform = "none" THEN 0 ELSE 1]

\* C6: indexed access.  For a valid index i, __getitem__(i) returns the image
\* opened from the first path and the mask opened from the second path of the
\* i-th stored pair, in that order, each passed through the transform exactly
\* once when a transform was given and not at all otherwise.
C6_IndexedAccess ==
    (pc = "constructed" /\ getIndex # NoVal)
    => LET i == getIndex[2]
           n == Len(files)
       IN  /\ (0 <= i /\ i < n)
                => getResult = <<Loaded(files[i + 1][1]), Loaded(files[i + 1][2])>>
           /\ (-n <= i /\ i < 0)
                => getResult = <<Loaded(files[n + i + 1][1]),
                                 Loaded(files[n + i + 1][2])>>
           /\ (i >= n \/ i < -n) => getResult = NoVal

C6_Witness ==
    /\ pc = "constructed" /\ getIndex = <<"tensor", 1>> /\ Len(files) = 2
    /\ transform = "T"
    /\ getResult # NoVal
    /\ getResult[1].path = files[2][1] /\ getResult[1].transformed = 1
    /\ getResult[2].path = files[2][2] /\ getResult[2].transformed = 1
    /\ getResult[1].path[1] = "root" /\ getResult[2].path[1] = "root/mask"

\* C9: enumeration is fixed after construction.  No __len__ or __getitem__
\* call changes the stored tuple or destroys the object; after every such
\* call the last __len__ result is the length of that tuple, the last
\* __getitem__ result is made from the pair stored at its index, and both
\* paths of every stored pair carry the stem of one manifest record.
C9_EnumerationFixed ==
    [][pc = "constructed"
       => /\ pc' = "constructed"
          /\ files' = files
          /\ lenResult' # -1 => lenResult' = Len(files)
          /\ (lenResult # -1 /\ lenResult' # -1) => lenResult' = lenResult
          /\ getResult' # NoVal
                => LET i == getIndex'[2]
                       k == IF i >= 0 THEN i + 1 ELSE Len(files) + i + 1
                   IN  /\ getResult'[1].path = files[k][1]
                       /\ getResult'[2].path = files[k][2]
          /\ \A k \in 1..Len(files) :
                /\ files[k][1][2] = files[k][2][2]
                /\ files[k][1][1] = "root" /\ files[k][2][1] = "root/mask"
                /\ \E r \in Records :
                      IntDefined(r) /\ format(int(r)) = files[k][1][2]
      ]_vars

C9_Witness ==
    /\ pc = "constructed" /\ Len(files) = 2 /\ lenResult = 2
    /\ getIndex = <<"int", 0>> /\ getResult # NoVal
    /\ getResult[1].path = files[1][1]

====
